---- MODULE Spec2Model ----
(***************************************************************************)
(* Model of items-min-mandatory/getscores-items-min-mandatory.py: the      *)
(* scoring primitives, the rule set that fills one score row, and the      *)
(* batch loop that writes rows to the csv table and indices to the log.    *)
(*                                                                         *)
(* Python values are modelled as follows.                                  *)
(*   - A call that can raise returns [raised, s]: Raise, or Return(v).     *)
(*   - The result of element.match(xpath=...) is None or a list of nodes:  *)
(*     [isNone, nodes].                                                    *)
(*   - A quotient under "from __future__ import division" is the exact     *)
(*     fraction <<numerator, denominator>>.                                *)
(*   - A collection id is <<"int", n>> or <<"str", s>>, so that the JSON   *)
(*     number 25778 and the JSON string "25778" stay different values.     *)
(* modsqual (the document facade) is not part of the source file; its      *)
(* behaviour is modelled from the specification text.                      *)
(***************************************************************************)
EXTENDS Integers, Sequences, FiniteSets, TLC

VARIABLES
    f,      \* mms_items.json: the sequence of input lines (batch driver)
    idx,    \* enumerate index of the next line to read
    w,      \* the csv table: [lines, closed]
    log,    \* the failure log: [chars, closed]
    pc,     \* position of the script
    row,    \* the row dictionary
    cur,    \* the input the last statement read, <<>> when it read none
    ret     \* the value a primitive returned, or the exception it raised

vars == <<f, idx, w, log, pc, row, cur, ret>>

\* ---------------------------------------------------------------- bounds

MaxRecords == 3     \* lines in mms_items.json
MaxNodes == 2       \* repeated titleInfo / genre / typeOfResource / identifier / division nodes
MaxDates == 3       \* date children of originInfo

\* ------------------------------------------------------- python values

Raise == [raised |-> TRUE, s |-> 0]
Return(v) == [raised |-> FALSE, s |-> v]

None == [isNone |-> TRUE, nodes |-> <<>>]
List(nodes) == [isNone |-> FALSE, nodes |-> nodes]

\* len(x): TypeError on None
len(x) == IF x.isNone THEN Raise ELSE Return(Len(x.nodes))

IntId(n) == <<"int", n>>
StrId(s) == <<"str", s>>
EmptyString == StrId("")

\* the quotient the / of line 173 would give without the __future__ import
FloorDiv(n, d) == <<n \div d, 1>>
\* exact quotient n/d of integers (true division)
TrueDiv(n, d) == <<n, d>>

RatAdd(a, b) == <<a[1] * b[2] + b[1] * a[2], a[2] * b[2]>>
RatEq(a, b) == a[1] * b[2] = b[1] * a[2]
RatLeq(a, b) == a[1] * b[2] <= b[1] * a[2]
FromInt(n) == <<n, 1>>

RECURSIVE SumInts(_)
SumInts(s) == IF s = <<>> THEN 0 ELSE Head(s) + SumInts(Tail(s))

RECURSIVE SumRats(_)
SumRats(s) ==
    IF s = <<>> THEN FromInt(0)
    ELSE RatAdd(Head(s), SumRats(Tail(s)))

\* str(idx) for a non-negative integer: its decimal digits
Digits == <<"0", "1", "2", "3", "4", "5", "6", "7", "8", "9">>
RECURSIVE str(_)
str(n) == IF n < 10 THEN <<Digits[n + 1]>> ELSE str(n \div 10) \o <<Digits[(n % 10) + 1]>>

\* the integer a line of decimal digits denotes (reading the log back)
DigitValue(c) == CHOOSE d \in 0..9 : Digits[d + 1] = c
RECURSIVE int(_)
int(s) == IF s = <<>> THEN 0 ELSE 10 * int(SubSeq(s, 1, Len(s) - 1)) + DigitValue(s[Len(s)])

\* ---------------------------------------------------------- configuration

header == <<"uuid", "mms_id", "mms_type", "coll_id", "division", "title_1", "title_2", "title",
            "typeOfResource", "genre_1", "genre_2", "genre", "date_1", "date_2", "date_3",
            "date_4", "date", "identifier", "location_1", "location_2", "location_3",
            "location_4", "location_5", "location", "total_min_mand">>

ignore == {IntId(25778), IntId(25777)}

resource_types == {"text", "cartographic", "notated music", "sound recording-musical",
                   "sound recording-nonmusical", "sound recording", "still image",
                   "moving image", "three dimensional object", "software, multimedia",
                   "mixed material"}

ignore_divisions ==
    {"External, not an NYPL item, it comes from some other institution. (LEGACY; Please do not use)",
     "No Division, NYPL item, but not associated with any one Division, e.g. NYPL Art Work",
     "Comm, Marketing, and Business Dev", "Reference and Research Services"}

\* ---------------------------------------------------- scoring primitives

score(bool, point, value) == IF bool = point THEN value ELSE 0

\* element.exists is read with no guard: AttributeError when element is None
exists(element) == IF element.isNone THEN Raise ELSE Return(score(element.exists, TRUE, 1))

inList(element, list) ==
    IF element.isNone THEN Raise
    ELSE IF element.exists = TRUE
         THEN Return(score(\A i \in 1..Len(element.text) : element.text[i] \in list, TRUE, 1))
         ELSE Return(0)

xpathexists(match, min) ==
    IF len(match).raised THEN Return(0) ELSE Return(score(len(match).s >= min, TRUE, 1))

xpathexactlyone(match) ==
    IF len(match).raised THEN Return(0) ELSE Return(score(len(match).s = 1, TRUE, 1))

xpathmax(match, max) ==
    IF len(match).raised THEN Return(0) ELSE Return(score(len(match).s <= max, TRUE, 1))

\* x.items()[0][1]['#text']: KeyError when the node has no text, absorbed
xpathtextexists(match, min) ==
    IF match.isNone THEN Return(0)
    ELSE IF \E i \in 1..Len(match.nodes) : ~match.nodes[i].hasText THEN Return(0)
    ELSE Return(score(\A i \in 1..Len(match.nodes) : Len(match.nodes[i].chars) >= min, TRUE, 1))

xpathvaluesmatch(match) ==
    IF len(match).raised THEN Return(0)
    ELSE IF len(match).s > 0
         THEN Return(score(\A i \in 1..Len(match.nodes) : match.nodes[i] = match.nodes[1], TRUE, 1))
         ELSE Return(0)

\* Counter of c.keys()[0], the element name of each node
Counter(match) ==
    [t \in {match.nodes[i].tag : i \in 1..Len(match.nodes)} |->
        Cardinality({i \in 1..Len(match.nodes) : match.nodes[i].tag = t})]

discretedatetypes(match) ==
    IF match.isNone THEN Return(0)
    ELSE LET datetypes == Counter(match)
         IN  IF Cardinality(DOMAIN datetypes) > 0
             THEN Return(score(\A x \in DOMAIN datetypes : datetypes[x] = 1, TRUE, 1))
             ELSE Return(0)

\* ------------------------------------------- document facade (modsqual)

\* A Document gives, for each top-level MODS element, the nodes found in the
\* XML and whether the facade hands out None, rather than an empty result,
\* for what is absent: [nodes, noneOnEmpty].  location also carries the
\* children of the location element.

\* modsdoc.<element>: the accessor object, or None
Accessor(part) ==
    [isNone |-> part.nodes = <<>> /\ part.noneOnEmpty,
     exists |-> part.nodes # <<>>,
     text |-> [i \in 1..Len(part.nodes) |-> part.nodes[i].chars],
     nodes |-> part.nodes,
     noneOnEmpty |-> part.noneOnEmpty]

\* the xpath expressions of the rule set
PrimaryTitle == "./m:titleInfo[@usage=\"primary\"]"
GenreAuthority == "./m:genre[@authority]"
SingleDate == "./m:originInfo/m:dateCreated|./m:originInfo/m:dateIssued|./m:originInfo/m:copyrightDate"
W3cdtfDate == "./m:originInfo/*[@encoding=\"w3cdtf\"]"
UnpointedDate ==
    "./m:originInfo[*[not(@point)]]/m:dateCreated|./m:originInfo[*[not(@point)]]/m:dateIssued"
StartPoint == "./m:originInfo/*[@point=\"start\"]"
LocalIdentifier ==
    "./m:identifier[@type=\"local_bnumber\" or @type=\"local_mss\" or @type=\"local_tms\"]"
RepositoryLocation == "./m:location/m:physicalLocation[@type=\"repository\"]"
DivisionLocation == "./m:location/m:physicalLocation[@type=\"division\"]"
ShelfLocatorLocation == "./m:location/m:shelfLocator"
AllThreeLocation ==
    "./m:location[m:physicalLocation[@type=\"division\"] and m:physicalLocation[@type=\"division_short_name\"] and m:physicalLocation[@type=\"code\"]]"

IsPrimary(n) == n.usage = "primary"
HasAuthority(n) == n.authority # ""
IsSingleDate(n) == n.tag \in {"dateCreated", "dateIssued", "copyrightDate"}
IsW3cdtf(n) == n.encoding = "w3cdtf"
IsStart(n) == n.point = "start"
IsCreatedOrIssued(n) == n.tag \in {"dateCreated", "dateIssued"}
IsLocalId(n) == n.type \in {"local_bnumber", "local_mss", "local_tms"}
IsRepository(n) == n.tag = "physicalLocation" /\ n.type = "repository"
IsDivision(n) == n.tag = "physicalLocation" /\ n.type = "division"
IsShelfLocator(n) == n.tag = "shelfLocator"

\* the location element has a physicalLocation child of type t
HasLocationOfType(element, t) ==
    \E i \in 1..Len(element.nodes) :
        element.nodes[i].tag = "physicalLocation" /\ element.nodes[i].type = t

\* the nodes the xpath selects in the element, in document order.
\* UnpointedDate selects in the one originInfo element, and only when some
\* child of it has no point attribute; AllThreeLocation selects the one
\* location element itself when it has all three children.
Selected(element, xpath) ==
    CASE xpath = PrimaryTitle -> SelectSeq(element.nodes, IsPrimary)
      [] xpath = GenreAuthority -> SelectSeq(element.nodes, HasAuthority)
      [] xpath = SingleDate -> SelectSeq(element.nodes, IsSingleDate)
      [] xpath = W3cdtfDate -> SelectSeq(element.nodes, IsW3cdtf)
      [] xpath = StartPoint -> SelectSeq(element.nodes, IsStart)
      [] xpath = UnpointedDate ->
            IF \E i \in 1..Len(element.nodes) : element.nodes[i].point = ""
            THEN SelectSeq(element.nodes, IsCreatedOrIssued) ELSE <<>>
      [] xpath = LocalIdentifier -> SelectSeq(element.nodes, IsLocalId)
      [] xpath = RepositoryLocation -> SelectSeq(element.nodes, IsRepository)
      [] xpath = DivisionLocation -> SelectSeq(element.nodes, IsDivision)
      [] xpath = ShelfLocatorLocation -> SelectSeq(element.nodes, IsShelfLocator)
      [] xpath = AllThreeLocation ->
            IF /\ HasLocationOfType(element, "division")
               /\ HasLocationOfType(element, "division_short_name")
               /\ HasLocationOfType(element, "code")
            THEN <<[tag |-> "location"]>> ELSE <<>>

\* element.match(xpath=...) on an accessor that is not None: a list of
\* nodes, or None
match(element, xpath) ==
    IF Selected(element, xpath) = <<>> /\ element.noneOnEmpty
    THEN None ELSE List(Selected(element, xpath))

\* -------------------------------------------------- multiplesingledates

\* variant scoring 0 when either flag holds
multiplesingledatesAny(modsdoc) ==
    IF Accessor(modsdoc.originInfo).isNone THEN Raise
    ELSE IF len(match(Accessor(modsdoc.originInfo), SingleDate)).raised THEN Raise
    ELSE IF len(match(Accessor(modsdoc.originInfo), StartPoint)).raised THEN Raise
    ELSE Return(score(\/ len(match(Accessor(modsdoc.originInfo), SingleDate)).s > 2
                      \/ len(match(Accessor(modsdoc.originInfo), StartPoint)).s > 0, FALSE, 1))
\* variant counting two single dates as many
multiplesingledatesTwo(modsdoc) ==
    IF Accessor(modsdoc.originInfo).isNone THEN Raise
    ELSE IF len(match(Accessor(modsdoc.originInfo), SingleDate)).raised THEN Raise
    ELSE IF len(match(Accessor(modsdoc.originInfo), StartPoint)).raised THEN Raise
    ELSE Return(score(/\ len(match(Accessor(modsdoc.originInfo), SingleDate)).s >= 2
                      /\ len(match(Accessor(modsdoc.originInfo), StartPoint)).s > 0, FALSE, 1))
\* modsdoc.originInfo.match raises AttributeError on None; both len() calls
\* are unguarded: a None match raises TypeError
multiplesingledates(modsdoc) ==
    IF Accessor(modsdoc.originInfo).isNone THEN Raise
    ELSE IF len(match(Accessor(modsdoc.originInfo), SingleDate)).raised THEN Raise
    ELSE IF len(match(Accessor(modsdoc.originInfo), StartPoint)).raised THEN Raise
    ELSE LET datecount == len(match(Accessor(modsdoc.originInfo), SingleDate)).s > 2
             datestart == len(match(Accessor(modsdoc.originInfo), StartPoint)).s > 0
         IN  Return(score(datecount /\ datestart, FALSE, 1))

\* ------------------------------------------------------------ rule set

\* the outcome of a group of statements: an exception, or the keys they set
Failed == [raised |-> TRUE, fields |-> <<>>]
Sets(fields) == [raised |-> FALSE, fields |-> fields]

\* sum(list, start)
sum(list, start) == start + SumInts(list)

\* row['title_1'], row['title_2'], row['title']
TitleScores(modsdoc) ==
    LET titleInfo == Accessor(modsdoc.titleInfo)
        title_1 == exists(titleInfo)
        title_2 == xpathexactlyone(match(titleInfo, PrimaryTitle))
    IN  IF title_1.raised THEN Failed
        ELSE Sets([title_1 |-> title_1.s, title_2 |-> title_2.s,
                   title |-> TrueDiv(sum(<<title_1.s, title_2.s>>, 0), 2)])

\* row['typeOfResource']
TypeOfResourceScore(modsdoc) ==
    LET s == inList(Accessor(modsdoc.typeOfResource), resource_types)
    IN  IF s.raised THEN Failed ELSE Sets([typeOfResource |-> s.s])

\* row['genre_1'], row['genre_2'], row['genre']
GenreScores(modsdoc) ==
    LET genre == Accessor(modsdoc.genre)
        genre_1 == exists(genre)
        genre_2 == xpathexists(match(genre, GenreAuthority), 1)
    IN  IF genre_1.raised THEN Failed
        ELSE Sets([genre_1 |-> genre_1.s, genre_2 |-> genre_2.s,
                   genre |-> TrueDiv(sum(<<genre_1.s, genre_2.s>>, 0), 2)])

\* variant calling multiplesingledates whatever date_1 is
DateScoresUngated(modsdoc) ==
    LET originInfo == Accessor(modsdoc.originInfo)
        date_1 == xpathexists(match(originInfo, SingleDate), 1)
        date_2 == xpathexists(match(originInfo, W3cdtfDate), 1)
        date_3 == discretedatetypes(match(originInfo, UnpointedDate))
        date_4 == multiplesingledates(modsdoc)
    IN  IF originInfo.isNone \/ date_4.raised THEN Failed
        ELSE Sets([date_1 |-> date_1.s, date_2 |-> date_2.s, date_3 |-> date_3.s,
                   date_4 |-> date_4.s,
                   date |-> TrueDiv(sum(<<date_1.s, date_2.s, date_3.s, date_4.s>>, 0), 4)])
\* row['date_1'] .. row['date_4'], row['date']; modsdoc.originInfo.match
\* raises AttributeError when the accessor is None
DateScores(modsdoc) ==
    LET originInfo == Accessor(modsdoc.originInfo)
        date_1 == xpathexists(match(originInfo, SingleDate), 1)
        date_2 == xpathexists(match(originInfo, W3cdtfDate), 1)
        date_3 == discretedatetypes(match(originInfo, UnpointedDate))
        date_4 == IF date_1.s = 1 THEN multiplesingledates(modsdoc) ELSE Return(0)
    IN  IF originInfo.isNone \/ date_4.raised THEN Failed
        ELSE Sets([date_1 |-> date_1.s, date_2 |-> date_2.s, date_3 |-> date_3.s,
                   date_4 |-> date_4.s,
                   date |-> TrueDiv(sum(<<date_1.s, date_2.s, date_3.s, date_4.s>>, 0), 4)])

\* row['identifier']
IdentifierScore(modsdoc) ==
    LET identifier == Accessor(modsdoc.identifier)
    IN  IF identifier.isNone THEN Failed
        ELSE Sets([identifier |-> xpathexists(match(identifier, LocalIdentifier), 1).s])

\* row['division']: the & evaluates both operands, so len() of a None match
\* raises; ['#text'] raises KeyError on a node without text
Division(location_2, found) ==
    IF len(found).raised THEN Raise
    ELSE IF (location_2 = 1) /\ (len(found).s > 0)
         THEN IF found.nodes[1].hasText THEN Return(found.nodes[1].chars) ELSE Raise
         ELSE Return("Null")

\* row['location_1'] .. row['location_5'], row['division'], row['location']
LocationScores(modsdoc) ==
    LET location == Accessor(modsdoc.location)
        location_1 == xpathexists(match(location, RepositoryLocation), 1)
        location_2 == xpathexists(match(location, DivisionLocation), 1)
        location_3 == xpathexists(match(location, ShelfLocatorLocation), 1)
        location_4 == xpathvaluesmatch(match(location, DivisionLocation))
        division == Division(location_2.s, match(location, DivisionLocation))
        location_5 == xpathexists(match(location, AllThreeLocation), 1)
    IN  IF location.isNone \/ division.raised THEN Failed
        ELSE Sets([location_1 |-> location_1.s, location_2 |-> location_2.s,
                   location_3 |-> location_3.s, location_4 |-> location_4.s,
                   division |-> division.s, location_5 |-> location_5.s,
                   location |-> TrueDiv(sum(<<location_1.s, location_2.s, location_3.s,
                                              location_4.s>>, location_5.s), 5)])

\* scores and row['total_min_mand']
Total(r) ==
    LET scores == <<r.title, FromInt(r.typeOfResource), r.genre, r.date,
                    FromInt(r.identifier), r.location>>
    IN  Sets([total_min_mand |-> SumRats(scores)])

\* ------------------------------------------------------ record evaluator

\* row['mms_id'], row['mms_type'], row['uuid']: json.loads raises on a line
\* that is not JSON, line[...] raises KeyError on a missing key
RecordFields(line) ==
    IF ~line.json \/ ~line.keys THEN Failed
    ELSE Sets([mms_id |-> line.id, mms_type |-> line.type, uuid |-> line.uuid])

\* row['coll_id']: the inner try/except turns every failure into ''
CollId(line) ==
    IF ~line.solr_doc_hash.json THEN EmptyString
    ELSE IF line.solr_doc_hash.hasKey THEN line.solr_doc_hash.mms_collection_id
    ELSE EmptyString

\* variant with the comparison to '' inverted
AuditedOrNonEmpty(coll_id) == (coll_id \notin ignore) \/ (coll_id # EmptyString)
\* the guard of the scoring block
Audited(coll_id) == (coll_id \notin ignore) \/ (coll_id = EmptyString)

\* modsqual.Mods(mods): raises on XML that does not parse
Mods(mods) == IF mods.wellFormed THEN Return(mods.doc) ELSE Raise

\* variant without the division filter
WrittenAlways(division) == TRUE
\* the guard of writer.writerow(row)
Written(division) == division \notin ignore_divisions

Scored(ids, coll_id, scored) ==
    IF scored.raised THEN [kind |-> "failed", row |-> <<>>]
    ELSE [kind |-> "scored", row |-> scored.fields @@ [coll_id |-> coll_id] @@ ids.fields]

\* the keys two groups of statements set, or the exception of either
Both(a, b) == IF a.raised \/ b.raised THEN Failed ELSE Sets(b.fields @@ a.fields)

\* scores and row['total_min_mand']
WithTotal(r) == IF r.raised THEN Failed ELSE Sets(Total(r.fields).fields @@ r.fields)

\* the keys the scoring block sets, or the exception that ends it
ScoreRow(modsdoc) ==
    WithTotal(Both(Both(Both(Both(Both(TitleScores(modsdoc), TypeOfResourceScore(modsdoc)),
                                  GenreScores(modsdoc)),
                             DateScores(modsdoc)),
                        IdentifierScore(modsdoc)),
                   LocationScores(modsdoc)))

\* the outcome of one pass of the loop body up to, not including,
\* writer.writerow: "failed" (an exception reached the outer except),
\* "skipped" (the guard of the scoring block was false) or "scored" with the
\* finished row
Outcome(ids, coll_id, modsdoc) ==
    IF ids.raised THEN [kind |-> "failed", row |-> <<>>]
    ELSE IF ~Audited(coll_id) THEN [kind |-> "skipped", row |-> <<>>]
    ELSE IF modsdoc.raised THEN [kind |-> "failed", row |-> <<>>]
    ELSE Scored(ids, coll_id, ScoreRow(modsdoc.s))
EvalLine(line) == Outcome(RecordFields(line), CollId(line), Mods(line.full_xml))

\* ---------------------------------------------------------------- files

\* variant logging line numbers from 1
LogFailureOneBased(chars, i) == chars \o str(i + 1) \o <<"\n">>
\* log.write(str(idx)); log.write('\n')
LogFailure(chars, i) == chars \o str(i) \o <<"\n">>

\* the lines of the log file
RECURSIVE Lines(_)
Lines(chars) ==
    IF chars = <<>> THEN <<>>
    ELSE LET n == CHOOSE k \in 1..Len(chars) :
                     chars[k] = "\n" /\ \A j \in 1..(k - 1) : chars[j] # "\n"
         IN  <<SubSeq(chars, 1, n - 1)>> \o Lines(SubSeq(chars, n + 1, Len(chars)))

\* csv.DictWriter.writerow: the values of the row in header order
writerow(r) == [k \in 1..Len(header) |-> r[header[k]]]

\* the value a written line holds in the named column
Column(line, name) == line[CHOOSE k \in 1..Len(header) : header[k] = name]

\* ---------------------------------------------------------------- inputs

SeqsUpTo(S, n) == UNION {[1..k -> S] : k \in 0..n}

\* the XML of a document the program reads: the facade answers every query
\* on it with a list, empty when nothing matches (the 'Null' branch of
\* row['division'] and the else branch of inList rely on it)
Part(nodes) == [nodes |-> nodes, noneOnEmpty |-> FALSE]

TitleInfoNodes ==
    {[tag |-> "titleInfo", usage |-> u, hasText |-> TRUE, chars |-> "A title"] :
        u \in {"primary", ""}}
TypeOfResourceNodes ==
    {[tag |-> "typeOfResource", hasText |-> TRUE, chars |-> c] : c \in {"still image", "Text"}}
GenreNodes ==
    {[tag |-> "genre", authority |-> a, hasText |-> TRUE, chars |-> "Photographs"] :
        a \in {"lctgm", ""}}
IdentifierNodes ==
    {[tag |-> "identifier", type |-> t, hasText |-> TRUE, chars |-> "b1234"] :
        t \in {"local_bnumber", "isbn"}}

DateTags == <<"dateCreated", "dateIssued", "copyrightDate">>
DatePoints == <<"", "start">>
DateEncodings == <<"", "w3cdtf">>
DateKinds == Len(DateTags) * Len(DatePoints) * Len(DateEncodings)
DateNode(k) ==
    [tag |-> DateTags[(k \div (Len(DatePoints) * Len(DateEncodings))) + 1],
     point |-> DatePoints[((k \div Len(DateEncodings)) % Len(DatePoints)) + 1],
     encoding |-> DateEncodings[(k % Len(DateEncodings)) + 1],
     hasText |-> TRUE, chars |-> "1900"]
\* the date children of originInfo, listed by kind: the date rules count
\* nodes and never look at their order
\* lists of at most n nodes of kinds k and up, in kind order
RECURSIVE DateListsFrom(_, _)
DateListsFrom(k, n) ==
    IF n = 0 THEN {<<>>}
    ELSE {<<>>} \cup UNION {{<<DateNode(j)>> \o s : s \in DateListsFrom(j, n - 1)} :
                              j \in k..(DateKinds - 1)}
DateLists == DateListsFrom(0, MaxDates)

PhysicalLocation(type, text) ==
    [tag |-> "physicalLocation", type |-> type, hasText |-> TRUE, chars |-> text]
EmptyDivision == [tag |-> "physicalLocation", type |-> "division", hasText |-> FALSE, chars |-> ""]
DivisionNodes ==
    {PhysicalLocation("division", t) :
        t \in {"Rare Book Division", "Reference and Research Services", "Null"}}
    \cup {EmptyDivision}
ShelfLocator == [tag |-> "shelfLocator", type |-> "", hasText |-> TRUE, chars |-> "*KB 1700"]
Opt(present, node) == IF present THEN <<node>> ELSE <<>>
LocationLists ==
    {Opt(r, PhysicalLocation("repository", "NYPL")) \o d
       \o Opt(n, PhysicalLocation("division_short_name", "RBK"))
       \o Opt(c, PhysicalLocation("code", "RBK")) \o Opt(l, ShelfLocator) :
        r \in BOOLEAN, n \in BOOLEAN, c \in BOOLEAN, l \in BOOLEAN,
        d \in SeqsUpTo(DivisionNodes, MaxNodes)}

TitleInfoParts == {Part(n) : n \in SeqsUpTo(TitleInfoNodes, MaxNodes)}
TypeOfResourceParts == {Part(n) : n \in SeqsUpTo(TypeOfResourceNodes, MaxNodes)}
GenreParts == {Part(n) : n \in SeqsUpTo(GenreNodes, MaxNodes)}
OriginInfoParts == {Part(n) : n \in DateLists}
IdentifierParts == {Part(n) : n \in SeqsUpTo(IdentifierNodes, MaxNodes)}
LocationParts == {Part(n) : n \in LocationLists}

\* the value of solr_doc_hash: a string that is not JSON, or an object with
\* or without the key mms_collection_id
SolrHashes ==
    {[json |-> FALSE, hasKey |-> FALSE, mms_collection_id |-> EmptyString],
     [json |-> TRUE, hasKey |-> FALSE, mms_collection_id |-> EmptyString]}
    \cup {[json |-> TRUE, hasKey |-> TRUE, mms_collection_id |-> c] :
            c \in {IntId(25778), IntId(25777), IntId(7)}}

\* sample documents for the batch: the empty MODS document, and a record with
\* one title that is not primary, one w3cdtf dateCreated, one local
\* identifier and a full location whose division node is d
Doc(t, r, g, o, i, l) ==
    [titleInfo |-> Part(t), typeOfResource |-> Part(r), genre |-> Part(g),
     originInfo |-> Part(o), identifier |-> Part(i), location |-> Part(l)]
EmptyDoc == Doc(<<>>, <<>>, <<>>, <<>>, <<>>, <<>>)
SampleDoc(d) ==
    Doc(<<[tag |-> "titleInfo", usage |-> "", hasText |-> TRUE, chars |-> "A title"]>>,
        <<>>, <<>>,
        <<[tag |-> "dateCreated", point |-> "", encoding |-> "w3cdtf",
           hasText |-> TRUE, chars |-> "1900"]>>,
        <<[tag |-> "identifier", type |-> "local_bnumber", hasText |-> TRUE, chars |-> "b1234"]>>,
        <<PhysicalLocation("repository", "NYPL"), d,
          PhysicalLocation("division_short_name", "RBK"), PhysicalLocation("code", "RBK"),
          ShelfLocator>>)

WellFormed(doc) == [wellFormed |-> TRUE, doc |-> doc]
Malformed == [wellFormed |-> FALSE, doc |-> EmptyDoc]
Solr(c) == [json |-> TRUE, hasKey |-> TRUE, mms_collection_id |-> c]
NoCollection == [json |-> TRUE, hasKey |-> FALSE, mms_collection_id |-> EmptyString]
NotJson == [json |-> FALSE, hasKey |-> FALSE, mms_collection_id |-> EmptyString]

\* the i-th line of the input; uuids are unique
Line(i, json, keys, solr, xml) ==
    [json |-> json, keys |-> keys, id |-> 5000 + i, type |-> "Item", uuid |-> i,
     solr_doc_hash |-> solr, full_xml |-> xml]

SampleLines(i) ==
    {Line(i, FALSE, FALSE, NotJson, Malformed),
     Line(i, TRUE, FALSE, Solr(IntId(25778)), Malformed),
     Line(i, TRUE, TRUE, Solr(IntId(25778)), Malformed),
     Line(i, TRUE, TRUE, Solr(IntId(25777)), WellFormed(SampleDoc(PhysicalLocation("division", "Rare Book Division")))),
     Line(i, TRUE, TRUE, Solr(IntId(7)), Malformed),
     Line(i, TRUE, TRUE, NoCollection, WellFormed(EmptyDoc)),
     Line(i, TRUE, TRUE, NotJson, WellFormed(SampleDoc(PhysicalLocation("division", "Rare Book Division")))),
     Line(i, TRUE, TRUE, Solr(StrId("25778")), WellFormed(SampleDoc(PhysicalLocation("division", "Reference and Research Services")))),
     Line(i, TRUE, TRUE, Solr(IntId(7)), WellFormed(SampleDoc(EmptyDivision))),
     Line(i, TRUE, TRUE, Solr(IntId(7)), WellFormed(SampleDoc(PhysicalLocation("division", "Null"))))}

RECURSIVE FilesOfLength(_)
FilesOfLength(n) ==
    IF n = 0 THEN {<<>>}
    ELSE {Append(s, l) : s \in FilesOfLength(n - 1), l \in SampleLines(n)}
InputFiles == UNION {FilesOfLength(n) : n \in 0..MaxRecords}

\* ---------------------------------------------------------- batch driver

\* the files are open, the header is written, no line is read
Opened ==
    /\ idx = 0
    /\ w = [lines |-> <<header>>, closed |-> FALSE]
    /\ log = [chars |-> <<>>, closed |-> FALSE]
    /\ row = <<>>
    /\ cur = <<>>
    /\ ret = <<>>

Init ==
    /\ f \in InputFiles
    /\ pc = "loop"
    /\ Opened

\* variant whose except clause writes nothing
RecordUnlogged(line, r) ==
    /\ cur' = line
    /\ row' = r.row
    /\ w' = IF r.kind = "scored" /\ Written(r.row.division)
            THEN [w EXCEPT !.lines = Append(@, writerow(r.row))]
            ELSE w
    /\ log' = log
\* the effect of one pass on the files: the row is written unless its
\* division is ignored, the index is logged when the pass failed
Record(line, r) ==
    /\ cur' = line
    /\ row' = r.row
    /\ w' = IF r.kind = "scored" /\ Written(r.row.division)
            THEN [w EXCEPT !.lines = Append(@, writerow(r.row))]
            ELSE w
    /\ log' = IF r.kind = "failed"
              THEN [log EXCEPT !.chars = LogFailure(@, idx)]
              ELSE log

\* EvalLine, tabulated over the lines an input file can hold
Outcomes == [line \in UNION {SampleLines(i) : i \in 1..MaxRecords} |-> EvalLine(line)]

\* one pass of the for loop: the try block and its except clause
ProcessLine ==
    /\ pc = "loop"
    /\ idx < Len(f)
    /\ \E r \in {Outcomes[f[idx + 1]]} : Record(f[idx + 1], r)
    /\ idx' = idx + 1
    /\ UNCHANGED <<f, pc, ret>>

\* log.close(); w.close()
CloseFiles ==
    /\ pc = "loop"
    /\ idx = Len(f)
    /\ log' = [log EXCEPT !.closed = TRUE]
    /\ w' = [w EXCEPT !.closed = TRUE]
    /\ pc' = "done"
    /\ UNCHANGED <<f, idx, row, cur, ret>>

Next == ProcessLine \/ CloseFiles

Spec == Init /\ [][Next]_vars

\* the script runs its next statement until it ends
FairSpec == Spec /\ WF_vars(Next)

\* ------------------------------------------ one record, statement by statement

\* SpecEval follows one line through the loop body.  The line and the parts
\* of its document are drawn when the statement that reads them runs; a
\* document is never changed, so this is the same as drawing it whole.

InitEval ==
    /\ f = <<"line">>
    /\ pc = "loop"
    /\ Opened

\* what a group of statements does to the row, and where control goes
Continue(input, r, there) ==
    /\ cur' = input
    /\ row' = IF r.raised THEN row ELSE r.fields @@ row
    /\ pc' = IF r.raised THEN "except" ELSE there

\* row = {}; json.loads(line); row['mms_id'], row['mms_type'], row['uuid']; mods
EvRead ==
    /\ pc = "loop"
    /\ idx < Len(f)
    /\ \E json \in BOOLEAN, keys \in BOOLEAN :
          /\ cur' = [json |-> json, keys |-> keys, id |-> 5000, type |-> "Item", uuid |-> 1]
          /\ row' = RecordFields(cur').fields
          /\ pc' = IF RecordFields(cur').raised THEN "except" ELSE "coll_id"
    /\ UNCHANGED <<f, idx, w, log, ret>>

\* the inner try/except: row['coll_id']
EvCollId ==
    /\ pc = "coll_id"
    /\ \E solr \in SolrHashes :
          /\ cur' = [solr_doc_hash |-> solr]
          /\ row' = [coll_id |-> CollId(cur')] @@ row
    /\ pc' = "guard"
    /\ UNCHANGED <<f, idx, w, log, ret>>

\* the guard of the scoring block is false: the pass ends
EvSkip ==
    /\ pc = "guard"
    /\ ~Audited(row.coll_id)
    /\ pc' = "loop"
    /\ idx' = idx + 1
    /\ cur' = <<>>
    /\ UNCHANGED <<f, w, log, row, ret>>

\* modsdoc = modsqual.Mods(mods)
EvMods ==
    /\ pc = "guard"
    /\ Audited(row.coll_id)
    /\ \E wellFormed \in BOOLEAN :
          /\ cur' = [full_xml |-> [wellFormed |-> wellFormed, doc |-> <<>>]]
          /\ pc' = IF Mods(cur'.full_xml).raised THEN "except" ELSE "title"
    /\ UNCHANGED <<f, idx, w, log, row, ret>>

\* row['title_1'], row['title_2'], row['title']
EvTitle ==
    /\ pc = "title"
    /\ \E part \in TitleInfoParts :
          Continue([titleInfo |-> part], TitleScores([titleInfo |-> part]), "typeOfResource")
    /\ UNCHANGED <<f, idx, w, log, ret>>

\* row['typeOfResource']
EvTypeOfResource ==
    /\ pc = "typeOfResource"
    /\ \E part \in TypeOfResourceParts :
          Continue([typeOfResource |-> part], TypeOfResourceScore([typeOfResource |-> part]), "genre")
    /\ UNCHANGED <<f, idx, w, log, ret>>

\* row['genre_1'], row['genre_2'], row['genre']
EvGenre ==
    /\ pc = "genre"
    /\ \E part \in GenreParts :
          Continue([genre |-> part], GenreScores([genre |-> part]), "date")
    /\ UNCHANGED <<f, idx, w, log, ret>>

\* row['date_1'] .. row['date_4'], row['date']
EvDate ==
    /\ pc = "date"
    /\ \E part \in OriginInfoParts :
          Continue([originInfo |-> part], DateScores([originInfo |-> part]), "identifier")
    /\ UNCHANGED <<f, idx, w, log, ret>>

\* row['identifier']
EvIdentifier ==
    /\ pc = "identifier"
    /\ \E part \in IdentifierParts :
          Continue([identifier |-> part], IdentifierScore([identifier |-> part]), "location")
    /\ UNCHANGED <<f, idx, w, log, ret>>

\* row['location_1'] .. row['location_5'], row['division'], row['location']
EvLocation ==
    /\ pc = "location"
    /\ \E part \in LocationParts :
          Continue([location |-> part], LocationScores([location |-> part]), "total")
    /\ UNCHANGED <<f, idx, w, log, ret>>

\* scores = [...]; row['total_min_mand'] = sum(scores)
EvTotal ==
    /\ pc = "total"
    /\ row' = Total(row).fields @@ row
    /\ pc' = "write"
    /\ cur' = <<>>
    /\ UNCHANGED <<f, idx, w, log, ret>>

\* if row['division'] not in ignore_divisions: writer.writerow(row)
EvWrite ==
    /\ pc = "write"
    /\ w' = IF Written(row.division) THEN [w EXCEPT !.lines = Append(@, writerow(row))] ELSE w
    /\ pc' = "loop"
    /\ idx' = idx + 1
    /\ cur' = <<>>
    /\ UNCHANGED <<f, log, row, ret>>

\* except: log.write(str(idx)); log.write('\n')
EvExcept ==
    /\ pc = "except"
    /\ log' = [log EXCEPT !.chars = LogFailure(@, idx)]
    /\ pc' = "loop"
    /\ idx' = idx + 1
    /\ cur' = <<>>
    /\ UNCHANGED <<f, w, row, ret>>

NextEval ==
    \/ EvRead \/ EvCollId \/ EvSkip \/ EvMods
    \/ EvTitle \/ EvTypeOfResource \/ EvGenre \/ EvDate \/ EvIdentifier \/ EvLocation
    \/ EvTotal \/ EvWrite \/ EvExcept \/ CloseFiles

SpecEval == InitEval /\ [][NextEval]_vars

\* --------------------------------------------------- the primitives alone

\* SpecPrim calls each primitive once on a value the facade can hand over:
\* an accessor or None, a list of nodes or None, a document whose facade does
\* or does not answer an empty query with None.

InitPrim ==
    /\ f = <<>>
    /\ pc = "call"
    /\ Opened

NoElement == [nodes |-> <<>>, noneOnEmpty |-> TRUE]
Matches ==
    {None} \cup {List(n) : n \in SeqsUpTo(DivisionNodes, MaxNodes)} \cup {List(n) : n \in DateLists}

Returned(name, argument, value) ==
    /\ pc' = "returned"
    /\ cur' = [primitive |-> name, argument |-> argument]
    /\ ret' = value
    /\ UNCHANGED <<f, idx, w, log, row>>

CallExists ==
    /\ pc = "call"
    /\ \E part \in TitleInfoParts \cup {NoElement} :
          Returned("exists", Accessor(part), exists(Accessor(part)))
CallInList ==
    /\ pc = "call"
    /\ \E part \in TypeOfResourceParts \cup {NoElement} :
          Returned("inList", Accessor(part), inList(Accessor(part), resource_types))
CallXpathExists ==
    /\ pc = "call"
    /\ \E m \in Matches, min \in 1..MaxNodes :
          Returned("xpathexists", <<m, min>>, xpathexists(m, min))
CallXpathTextExists ==
    /\ pc = "call"
    /\ \E m \in Matches, min \in 1..MaxNodes :
          Returned("xpathtextexists", <<m, min>>, xpathtextexists(m, min))
CallXpathExactlyOne ==
    /\ pc = "call"
    /\ \E m \in Matches : Returned("xpathexactlyone", m, xpathexactlyone(m))
CallXpathMax ==
    /\ pc = "call"
    /\ \E m \in Matches, max \in 1..MaxNodes : Returned("xpathmax", <<m, max>>, xpathmax(m, max))
CallXpathValuesMatch ==
    /\ pc = "call"
    /\ \E m \in Matches : Returned("xpathvaluesmatch", m, xpathvaluesmatch(m))
CallDiscreteDateTypes ==
    /\ pc = "call"
    /\ \E m \in Matches : Returned("discretedatetypes", m, discretedatetypes(m))
CallMultipleSingleDates ==
    /\ pc = "call"
    /\ \E n \in DateLists, noneOnEmpty \in BOOLEAN :
          Returned("multiplesingledates", [originInfo |-> [nodes |-> n, noneOnEmpty |-> noneOnEmpty]],
                   multiplesingledates([originInfo |-> [nodes |-> n, noneOnEmpty |-> noneOnEmpty]]))

NextPrim ==
    \/ CallExists \/ CallInList \/ CallXpathExists \/ CallXpathTextExists
    \/ CallXpathExactlyOne \/ CallXpathMax \/ CallXpathValuesMatch
    \/ CallDiscreteDateTypes \/ CallMultipleSingleDates

SpecPrim == InitPrim /\ [][NextPrim]_vars

\* ============================================================== properties

\* ------------------------------------------------ what the files hold

\* the table has a data line for the i-th input line (uuids are unique)
HasRow(i) == \E k \in 2..Len(w.lines) : Column(w.lines[k], "uuid") = f[i].uuid

\* the indices the log holds, read back line by line
LoggedIndices == [k \in 1..Len(Lines(log.chars)) |-> int(Lines(log.chars)[k])]

\* the log has a line for the i-th input line, whose enumerate index is i - 1
HasLog(i) == \E k \in 1..Len(LoggedIndices) : LoggedIndices[k] = i - 1

\* ------------------------------------------------ what a line is, from its data

CollectionExcluded(line) ==
    ~RecordFields(line).raised /\ CollId(line) \in ignore /\ CollId(line) # EmptyString

\* a Score Row can be computed from the line
Scorable(line) ==
    /\ ~RecordFields(line).raised
    /\ line.full_xml.wellFormed
    /\ ~ScoreRow(line.full_xml.doc).raised

DivisionOf(line) == ScoreRow(line.full_xml.doc).fields.division

\* evaluation of the line raises an error that reaches the outer except
Raises(line) ==
    \/ RecordFields(line).raised
    \/ /\ ~CollectionExcluded(line)
       /\ (~line.full_xml.wellFormed \/ ScoreRow(line.full_xml.doc).raised)

\* C1: a scored record's row is in the table if and only if its coll_id is
\* empty or not in the collection exclusion set and its division is not in
\* the division exclusion set; no other record has a row.
C1_RowWrittenIff ==
    \A i \in 1..idx :
        HasRow(i) <=> /\ Scorable(f[i])
                      /\ (CollId(f[i]) = EmptyString \/ CollId(f[i]) \notin ignore)
                      /\ DivisionOf(f[i]) \notin ignore_divisions

\* C1 witness: one scored record was written and another, whose division is
\* excluded, was scored and not written.
C1_Witness ==
    \E i \in 1..idx, j \in 1..idx :
        /\ HasRow(i)
        /\ Scorable(f[j]) /\ ~CollectionExcluded(f[j])
        /\ DivisionOf(f[j]) \in ignore_divisions /\ ~HasRow(j)

\* the four terminal outcomes of the i-th record
ExcludedByCollection(i) == CollectionExcluded(f[i]) /\ ~HasRow(i) /\ ~HasLog(i)
FailedLogged(i) == Raises(f[i]) /\ HasLog(i) /\ ~HasRow(i)
ScoredExcludedByDivision(i) ==
    /\ Scorable(f[i]) /\ ~CollectionExcluded(f[i])
    /\ DivisionOf(f[i]) \in ignore_divisions
    /\ ~HasRow(i) /\ ~HasLog(i)
ScoredEmitted(i) ==
    /\ Scorable(f[i]) /\ ~CollectionExcluded(f[i])
    /\ DivisionOf(f[i]) \notin ignore_divisions
    /\ HasRow(i) /\ ~HasLog(i)
OutcomesOf(i) ==
    {o \in {"collection", "failed", "division", "emitted"} :
        \/ o = "collection" /\ ExcludedByCollection(i)
        \/ o = "failed" /\ FailedLogged(i)
        \/ o = "division" /\ ScoredExcludedByDivision(i)
        \/ o = "emitted" /\ ScoredEmitted(i)}

RECURSIVE FailedIndices(_)
FailedIndices(n) ==
    IF n = 0 THEN <<>>
    ELSE FailedIndices(n - 1) \o (IF Raises(f[n]) THEN <<n - 1>> ELSE <<>>)

\* the data lines the first n lines produce when each is taken alone
RECURSIVE RowsAlone(_)
RowsAlone(n) ==
    IF n = 0 THEN <<>>
    ELSE RowsAlone(n - 1) \o
         (IF Scorable(f[n]) /\ ~CollectionExcluded(f[n]) /\ DivisionOf(f[n]) \notin ignore_divisions
          THEN <<writerow(EvalLine(f[n]).row)>> ELSE <<>>)

\* C3: a record whose evaluation raises has no row and exactly its index in
\* the log; the log holds exactly the indices of the failed records, in input
\* order; the other records are processed as if no record had failed.
C3_FailuresLoggedInOrder ==
    /\ LoggedIndices = FailedIndices(idx)
    /\ \A i \in 1..idx : Raises(f[i]) => ~HasRow(i)
    /\ w.lines = <<header>> \o RowsAlone(idx)

\* C3 witness: a record failed with malformed XML, its index is the log's
\* only line, and a later record was written.
C3_Witness ==
    \E i \in 1..idx, j \in 1..idx :
        /\ i < j
        /\ ~RecordFields(f[i]).raised /\ ~CollectionExcluded(f[i]) /\ ~f[i].full_xml.wellFormed
        /\ Lines(log.chars) = <<str(i - 1)>>
        /\ HasRow(j)

\* C4: a pass over a record whose resolved coll_id is in the collection
\* exclusion set leaves the table and the log as they were, also when the
\* record's XML is malformed (the document is never built).
C4_ExcludedCollectionIsSilent ==
    [][(pc = "loop" /\ idx < Len(f) /\ CollectionExcluded(f[idx + 1]))
         => (w' = w /\ log' = log /\ row' = <<>>)]_vars

\* C4 witness: the first record, of an excluded collection and with
\* malformed XML, has been passed over and both files are untouched.
C4_Witness ==
    /\ idx = 1
    /\ CollectionExcluded(f[1]) /\ ~f[1].full_xml.wellFormed
    /\ w.lines = <<header>> /\ log.chars = <<>>

\* ------------------------------------------------ the score row

BinaryScores ==
    {"title_1", "title_2", "typeOfResource", "genre_1", "genre_2", "date_1", "date_2",
     "date_3", "date_4", "identifier", "location_1", "location_2", "location_3",
     "location_4", "location_5"}
CategoryScores == {"title", "genre", "date", "location"}

UnitInterval(q) == RatLeq(FromInt(0), q) /\ RatLeq(q, FromInt(1))

\* the sum of the six category means, over the common denominator 20
SixCategories(r) ==
    <<10 * (r.title_1 + r.title_2) + 20 * r.typeOfResource + 10 * (r.genre_1 + r.genre_2)
        + 5 * (r.date_1 + r.date_2 + r.date_3 + r.date_4) + 20 * r.identifier
        + 4 * (r.location_1 + r.location_2 + r.location_3 + r.location_4 + r.location_5),
      20>>

\* the row holds the fields k, and so the statements that set them have run
Set(k) == k \subseteq DOMAIN row

\* C5: in every Score Row each binary score is 0 or 1, each category score is
\* the unweighted mean of its binary scores and lies in [0,1], and
\* total_min_mand is the sum of the six category scores and lies in [0,6]
\* (each score is checked from the statement that sets it onwards).
C5_ScoresAreMeansInRange ==
    /\ \A k \in BinaryScores \cap DOMAIN row : row[k] \in {0, 1}
    /\ \A k \in CategoryScores \cap DOMAIN row : UnitInterval(row[k])
    /\ Set({"title"}) => RatEq(row.title, <<row.title_1 + row.title_2, 2>>)
    /\ Set({"genre"}) => RatEq(row.genre, <<row.genre_1 + row.genre_2, 2>>)
    /\ Set({"date"}) =>
          RatEq(row.date, <<row.date_1 + row.date_2 + row.date_3 + row.date_4, 4>>)
    /\ Set({"location"}) =>
          RatEq(row.location, <<row.location_1 + row.location_2 + row.location_3
                                  + row.location_4 + row.location_5, 5>>)
    /\ pc = "write" =>
          /\ Set(BinaryScores \cup CategoryScores \cup {"total_min_mand"})
          /\ RatEq(row.total_min_mand, SixCategories(row))
          /\ RatLeq(FromInt(0), row.total_min_mand) /\ RatLeq(row.total_min_mand, FromInt(6))

\* C5 witness: a finished row whose title is 1/2, whose date is 3/4, whose
\* location is 3/5 and whose total is not a whole number.
C5_Witness ==
    /\ pc = "write"
    /\ RatEq(row.title, <<1, 2>>) /\ RatEq(row.date, <<3, 4>>) /\ RatEq(row.location, <<3, 5>>)
    /\ row.typeOfResource = 1 /\ row.identifier = 0 /\ RatEq(row.genre, FromInt(1))
    /\ RatEq(row.total_min_mand, <<77, 20>>)

\* ------------------------------------------------ multiplesingledates

Called(name) == pc = "returned" /\ cur.primitive = name

\* dateCreated / dateIssued / copyrightDate children of originInfo
SingleDates(modsdoc) ==
    Cardinality({i \in 1..Len(modsdoc.originInfo.nodes) :
                    modsdoc.originInfo.nodes[i].tag \in {"dateCreated", "dateIssued", "copyrightDate"}})
\* children of originInfo carrying point="start"
RangeStarts(modsdoc) ==
    Cardinality({i \in 1..Len(modsdoc.originInfo.nodes) :
                    modsdoc.originInfo.nodes[i].point = "start"})
\* the facade answers both queries of multiplesingledates with a list
BothCounted(modsdoc) ==
    ~modsdoc.originInfo.noneOnEmpty \/ (SingleDates(modsdoc) > 0 /\ RangeStarts(modsdoc) > 0)

\* C6 (as amended): given 3 single dates with no range point
\* multiplesingledates returns 1; given 3 single dates of which one carries
\* point="start" it returns 0; given 2 single dates with no range point it
\* returns 1 (the facade answering both queries with a list).
C6_ThreePlainDatesPass ==
    (Called("multiplesingledates") /\ BothCounted(cur.argument)) =>
        /\ (SingleDates(cur.argument) = 3 /\ RangeStarts(cur.argument) = 0) => ret = Return(1)
        /\ (SingleDates(cur.argument) = 3 /\ RangeStarts(cur.argument) = 1) => ret = Return(0)
        /\ (SingleDates(cur.argument) = 2 /\ RangeStarts(cur.argument) = 0) => ret = Return(1)

\* C6 witness: multiplesingledates was called on 3 single dates with no
\* range point, the facade answering with lists, and returned 1.
C6_Witness ==
    /\ Called("multiplesingledates")
    /\ SingleDates(cur.argument) = 3 /\ RangeStarts(cur.argument) = 0
    /\ BothCounted(cur.argument)
    /\ ret = Return(1)

\* C6 (as claimed): 3 single dates with no range point give 0, 3 single
\* dates with one range start give 0, 2 single dates with no range point
\* give 1 (on documents whose queries the facade answers with lists).
C6_AsClaimed ==
    (Called("multiplesingledates") /\ BothCounted(cur.argument)) =>
        /\ (SingleDates(cur.argument) = 3 /\ RangeStarts(cur.argument) = 0) => ret = Return(0)
        /\ (SingleDates(cur.argument) = 3 /\ RangeStarts(cur.argument) = 1) => ret = Return(0)
        /\ (SingleDates(cur.argument) = 2 /\ RangeStarts(cur.argument) = 0) => ret = Return(1)

\* C7: multiplesingledates returns 0 exactly when there are more than two
\* single dates and at least one child with point="start", and 1 for every
\* other pair of counts.
C7_ZeroIffManyDatesAndRange ==
    (Called("multiplesingledates") /\ BothCounted(cur.argument)) =>
        /\ ~ret.raised
        /\ ret.s \in {0, 1}
        /\ ret.s = 0 <=> (SingleDates(cur.argument) > 2 /\ RangeStarts(cur.argument) > 0)

\* C7 witness: a range start among at most two single dates, scored 1.
C7_Witness ==
    /\ Called("multiplesingledates")
    /\ BothCounted(cur.argument)
    /\ SingleDates(cur.argument) = 2 /\ RangeStarts(cur.argument) > 0
    /\ ret = Return(1)

\* C8 (as claimed): every scoring primitive absorbs a failed facade access:
\* it returns 0 and does not raise.
C8_PrimitivesAbsorbErrors == pc = "returned" => (~ret.raised /\ ret.s \in {0, 1})

\* C8 witness: exists was handed None for the element and raised.
C8_Witness == Called("exists") /\ cur.argument.isNone /\ ret = Raise

\* ------------------------------------------------ division and date_4

\* the physicalLocation nodes of type "division", in document order
DivisionsOf(part) == SelectSeq(part.nodes, IsDivision)

AfterLocation == pc = "total" /\ "location" \in DOMAIN cur
FailedInLocation == pc = "except" /\ "location" \in DOMAIN cur

\* what the code does instead: location_2 = 1 exactly when a division node
\* exists; division is then the text of the first one, which must carry text,
\* and "Null" when there is none; the location statements fail exactly on a
\* first division node without text.
DivisionIsFirstNodeText ==
    /\ AfterLocation =>
          /\ row.location_2 = (IF DivisionsOf(cur.location) # <<>> THEN 1 ELSE 0)
          /\ DivisionsOf(cur.location) # <<>> =>
                /\ DivisionsOf(cur.location)[1].hasText
                /\ row.division = DivisionsOf(cur.location)[1].chars
          /\ DivisionsOf(cur.location) = <<>> => row.division = "Null"
    /\ FailedInLocation =>
          /\ DivisionsOf(cur.location) # <<>>
          /\ ~DivisionsOf(cur.location)[1].hasText

\* C9 witness: the first division node of the record carries no text, and
\* the location statements raised.
C9_Witness ==
    /\ FailedInLocation
    /\ DivisionsOf(cur.location) # <<>>
    /\ ~DivisionsOf(cur.location)[1].hasText

\* C9 (as claimed): division is the first division node's text when
\* location_2 = 1 and a node exists, "Null" otherwise; division = "Null" if
\* and only if location_2 = 0; a record with a division node never fails
\* because of division resolution.
C9_AsClaimed ==
    /\ AfterLocation =>
          /\ row.division = (IF row.location_2 = 1 /\ DivisionsOf(cur.location) # <<>>
                             THEN DivisionsOf(cur.location)[1].chars ELSE "Null")
          /\ row.division = "Null" <=> row.location_2 = 0
    /\ FailedInLocation => DivisionsOf(cur.location) = <<>>

AfterDate == pc = "identifier" /\ "originInfo" \in DOMAIN cur

\* C10: in every Score Row date_4 is multiplesingledates(document) when
\* date_1 = 1 and 0 when date_1 = 0, so date_4 = 1 implies date_1 = 1; the
\* date category is (date_1 + date_2 + date_3 + date_4) / 4.
C10_Date4GatedByDate1 ==
    /\ AfterDate =>
          row.date_4 = (IF row.date_1 = 1 THEN multiplesingledates(cur).s ELSE 0)
    /\ pc \in {"identifier", "location", "total", "write"} =>
          /\ row.date_4 = 1 => row.date_1 = 1
          /\ RatEq(row.date, <<row.date_1 + row.date_2 + row.date_3 + row.date_4, 4>>)

\* C10 witness: no single date, so date_1 = 0; multiplesingledates would
\* return 1 on the document, and date_4 is 0.
C10_Witness ==
    /\ AfterDate
    /\ row.date_1 = 0 /\ row.date_4 = 0
    /\ multiplesingledates(cur) = Return(1)
====
